---- MODULE Spec2Model ----
(***************************************************************************)
(* The Highlight Locator of the PDF question-answering client: the search  *)
(* and result-navigation state of EnhancedPDFViewer (the revision with the *)
(* automatic search on a document change), with the page-navigation        *)
(* requests it has in flight.  A text is a sequence of one-character       *)
(* strings.                                                                *)
(***************************************************************************)
EXTENDS Integers, Sequences, FiniteSets, Bags

\* ------------------------------------------------------------------ bounds
MaxLocs == 2        \* a backend response holds at most MaxLocs locations
MaxInFlight == 2    \* requests the model lets be in flight together

\* ------------------------------------------------------- program constants
MaxQueryLen == 100  \* text.trim().slice(0, 100)
SnippetMinDot == 10 \* sentenceEnd > 10
SnippetMaxDot == 100 \* sentenceEnd < 100
SnippetTokens == 10 \* .slice(0, 10) of the tokens

Min(a, b) == IF a < b THEN a ELSE b
Max(a, b) == IF a > b THEN a ELSE b

\* ------------------------------------------------------------------- texts
Rep(c, n) == [i \in 1..n |-> c]

IsSpace(c) == c = " "

\* positions of s that hold no whitespace
Inked(s) == {i \in 1..Len(s) : ~IsSpace(s[i])}

Least(S) == CHOOSE i \in S : \A j \in S : i <= j
Greatest(S) == CHOOSE i \in S : \A j \in S : j <= i

\* String.prototype.trim
Trim(s) ==
  IF Inked(s) = {} THEN <<>> ELSE SubSeq(s, Least(Inked(s)), Greatest(Inked(s)))

\* String.prototype.slice(0, n) and substring(0, n), for 0 <= n
Slice(s, n) == SubSeq(s, 1, Min(n, Len(s)))

\* String.prototype.indexOf: 0-based position of the first c, or -1
IndexOf(s, c) ==
  IF \E i \in 1..Len(s) : s[i] = c
  THEN Least({i \in 1..Len(s) : s[i] = c}) - 1
  ELSE -1

\* the k-th smallest member of a set of numbers
Kth(S, k) == CHOOSE i \in S : Cardinality({j \in S : j < i}) = k - 1

\* faulty variant: split(' '), every single blank separates, so a run of blanks
\* leaves empty pieces
SplitEachBlank(s) ==
  LET blanks == {i \in 1..Len(s) : IsSpace(s[i])}
      cuts == {0} \cup blanks \cup {Len(s) + 1}
  IN [k \in 1..(Cardinality(blanks) + 1) |->
        SubSeq(s, Kth(cuts, k) + 1, Kth(cuts, k + 1) - 1)]

\* String.prototype.split(/\s+/): the pieces between maximal runs of whitespace;
\* an empty text gives one empty piece, leading or trailing whitespace an empty
\* first or last piece
SplitWs(s) ==
  LET starts == {i \in Inked(s) : i = 1 \/ IsSpace(s[i - 1])}
      ends == {i \in Inked(s) : i = Len(s) \/ IsSpace(s[i + 1])}
      words == [k \in 1..Cardinality(starts) |-> SubSeq(s, Kth(starts, k), Kth(ends, k))]
      lead == IF s # <<>> /\ IsSpace(s[1]) THEN << <<>> >> ELSE <<>>
      trail == IF s # <<>> /\ IsSpace(s[Len(s)]) THEN << <<>> >> ELSE <<>>
  IN IF s = <<>> THEN << <<>> >> ELSE lead \o words \o trail

\* faulty variant: join(''), the tokens are glued together
RECURSIVE JoinGlued(_)
JoinGlued(toks) ==
  IF toks = <<>> THEN <<>> ELSE toks[1] \o JoinGlued(Tail(toks))

\* Array.prototype.join(' ')
RECURSIVE JoinSp(_)
JoinSp(toks) ==
  IF toks = <<>> THEN <<>>
  ELSE IF Len(toks) = 1 THEN toks[1]
  ELSE toks[1] \o <<" ">> \o JoinSp(Tail(toks))

\* faulty variant: substring(0, sentenceEnd), the period is left out
getSearchableSnippetNoPeriod(text) ==
  LET trimmedText == Trim(text)
      sentenceEnd == IndexOf(trimmedText, ".")
  IN IF sentenceEnd > SnippetMinDot /\ sentenceEnd < SnippetMaxDot
     THEN Slice(trimmedText, sentenceEnd)
     ELSE JoinSp(Slice(SplitWs(trimmedText), SnippetTokens))

getSearchableSnippet(text) ==
  LET trimmedText == Trim(text)
      sentenceEnd == IndexOf(trimmedText, ".")
  IN IF sentenceEnd > SnippetMinDot /\ sentenceEnd < SnippetMaxDot
     THEN Slice(trimmedText, sentenceEnd + 1)
     ELSE JoinSp(Slice(SplitWs(trimmedText), SnippetTokens))

\* !text.trim(): the text is empty or all whitespace
IsBlank(text) == Inked(text) = {}

\* faulty variant: the trimmed text is sent whole, without .slice(0, 100)
SearchQueryUntruncated(text) == Trim(text)

\* the query handleSearch sends for a text: text.trim().slice(0, 100)
SearchQueryOf(text) == Slice(Trim(text), MaxQueryLen)

\* ------------------------------------------------------------ input spaces
DocIds == {"docA", "docB"}

\* texts the user can type into the search box
TypedTexts ==
  { <<" ">>, <<" ", "a", " ">>,
    <<" ">> \o Rep("a", MaxQueryLen - 1) \o <<" ", "b", " ">> }

\* full_content texts a source click can hand over as highlightText
\* (the empty text stands for an absent highlightText: both are falsy)
HighlightTexts == { <<>>, <<" ">>, <<"b", " ", " ", "b">> }

\* the pages a source or a location can name
PageNumbers == {1, 7}

\* pageNumber 0 stands for an absent pageNumber (both are falsy)
Documents == [id : DocIds, pageNumber : {0} \cup PageNumbers, highlightText : HighlightTexts]

\* no document selected yet (the prop is null)
NoDoc == ""

Box == [x0 |-> 10, y0 |-> 20, x1 |-> 200, y1 |-> 40]

PDFLocation == [page_number : PageNumbers, bbox : {Box}]

RECURSIVE SeqsUpTo(_, _)
SeqsUpTo(S, n) ==
  IF n = 0 THEN {<<>>}
  ELSE LET shorter == SeqsUpTo(S, n - 1)
       IN shorter \cup {Append(s, x) : s \in {t \in shorter : Len(t) = n - 1}, x \in S}

LocationLists == SeqsUpTo(PDFLocation, MaxLocs)

\* what can come back for a page-navigation request: a transport failure
\* (fetch rejects), a non-2xx answer, or a 2xx answer with a body
Responses ==
  {[net |-> "failed", ok |-> FALSE, status |-> "error", locations |-> <<>>],
   [net |-> "answered", ok |-> FALSE, status |-> "error", locations |-> <<>>],
   [net |-> "answered", ok |-> TRUE, status |-> "error", locations |-> <<>>]}
  \cup [net : {"answered"}, ok : {TRUE}, status : {"success"}, locations : LocationLists]

NoResponse == [net |-> "none", ok |-> FALSE, status |-> "", locations |-> <<>>]

\* ------------------------------------------------------------------- state
VARIABLES
  document,            \* the id of the document prop handed down by the chat page
  currentPage,
  searchText,
  searchResults,
  currentSearchIndex,
  isSearching,
  pending,             \* the bag of page-navigation requests sent and not yet settled
  resultsDoc,          \* history: the document the request that filled searchResults was for
  searchedDoc,         \* history: the document of the search started last
  last,                \* history: the handler that ran last, its input and what it showed
  totalPages,
  zoom,
  pdfError,
  pdfLoad,             \* where the Document component is with loading the file
  snippetCall,         \* a text handed to getSearchableSnippet and what came back
  highlightedPdfUrl,
  isCreatingHighlight,
  highlightPending,    \* the POST /api/highlight requests sent and not yet settled
  pagesPending,        \* the bag of GET /api/documents/{id}/pages requests not yet settled
  \* the upload page (DocumentUpload)
  serverStatus,
  documents,
  loading,
  error,
  selectedFile,        \* whether a file is selected
  uploadProgress,
  attempts,            \* let attempts of pollProcessingStatus
  refreshCalls,        \* the handleRefresh calls under way, each with the serverStatus its closure holds
  uploadCall,          \* where handleUpload and its poll loop are
  polls,               \* history: the status requests sent for the upload under way
  uploadLast,          \* history: the step of the upload page that ran last
  \* the chat page (ChatPage)
  messages,
  isLoading,
  showPDFViewer,
  currentDocument,
  documentCache,       \* the ids of the documents whose info is cached
  sendCall,            \* the handleSendMessage call under way, with the cache its closure holds
  sourceCalls,         \* the handleSourceClick calls waiting for GET /documents/{id}
  requests,            \* history: how many source selections were made
  sends,               \* history: how many messages were accepted
  requested,           \* history: the source selected last
  requestedOk,         \* history: whether the lookup of the source selected last found it
  chatLast             \* history: the step of the chat page that ran last

\* the page count, the zoom and the load error of the viewer
viewVars == <<totalPages, zoom, pdfError, pdfLoad>>

\* state no handler of the search box, the results or the viewer touches
highlightVars == <<highlightedPdfUrl, isCreatingHighlight, highlightPending, pagesPending>>

uploadVars == <<serverStatus, documents, loading, error, selectedFile, uploadProgress,
                attempts, refreshCalls, uploadCall, polls, uploadLast>>

chatVars == <<messages, isLoading, showPDFViewer, currentDocument, documentCache, sendCall,
              sourceCalls, requests, sends, requested, requestedOk, chatLast>>

\* the state of the pages around the viewer
pagesState == <<uploadVars, chatVars>>

otherVars == <<snippetCall, highlightVars, pagesState>>

vars == <<document, currentPage, searchText, searchResults,
          currentSearchIndex, isSearching, pending, resultsDoc, searchedDoc, last,
          viewVars, otherVars>>

\* the state of the viewer
viewerVars == <<document, currentPage, searchText, searchResults,
                currentSearchIndex, isSearching, pending, resultsDoc, searchedDoc, last,
                viewVars, snippetCall, highlightVars>>

\* useState<UploadProgress | null>(null)
NoProgress == [stage |-> "none", progress |-> 0]

\* a handleRefresh call: what it awaits and the serverStatus of the render it was made in
RefreshCall(phase, seen) == [phase |-> phase, seen |-> seen]

\* the upload page after its first render and the effect that calls handleRefresh
InitUpload ==
  /\ serverStatus = "checking"
  /\ documents = {}
  /\ loading = FALSE
  /\ error = ""
  /\ selectedFile = FALSE
  /\ uploadProgress = NoProgress
  /\ attempts = 0
  /\ refreshCalls = {RefreshCall("health", "checking")}
  /\ uploadCall = "none"
  /\ polls = 0
  /\ uploadLast = [op |-> "mount", resp |-> ""]

\* no document is shown (useState<CurrentDocument | null>(null))
NoDocument == [id |-> "", filename |-> "", url |-> "", pageNumber |-> 0, highlightText |-> <<>>]

\* no handleSendMessage call is under way
NoSend == [active |-> FALSE, message |-> <<>>, cache |-> {}]

\* no source was selected yet
NoSource == [document_id |-> "", page_number |-> 0, full_content |-> <<>>]

\* the content of the message the chat starts with
Greeting == <<"greeting">>

\* the chat page after its first render
InitChat ==
  /\ messages = <<[type |-> "assistant", content |-> Greeting, sources |-> <<>>]>>
  /\ isLoading = FALSE
  /\ showPDFViewer = FALSE
  /\ currentDocument = NoDocument
  /\ documentCache = {}
  /\ sendCall = NoSend
  /\ sourceCalls = {}
  /\ requests = 0
  /\ sends = 0
  /\ requested = NoSource
  /\ requestedOk = FALSE
  /\ chatLast = [op |-> "mount", accepted |-> FALSE, ok |-> FALSE]

\* pdfError is null
NoError == ""

InitialZoom == 100  \* useState(100)

\* useState(''): no highlighted copy yet
NoUrl == [document_id |-> "", page_number |-> 0]

\* no text has been handed to getSearchableSnippet
NoSnippet == [text |-> <<>>, derived |-> FALSE, result |-> <<>>]

Request(docId, query) == [docId |-> docId, search_text |-> query]

\* detail is what an alert shows beyond its fixed text
Event(op, delta, resp, outcome, alert) ==
  [op |-> op, delta |-> delta, resp |-> resp, outcome |-> outcome, alert |-> alert,
   detail |-> ""]

Init ==
  /\ document = NoDoc
  /\ currentPage = 1
  /\ searchText = <<>>
  /\ searchResults = <<>>
  /\ currentSearchIndex = 0
  /\ isSearching = FALSE
  /\ pending = EmptyBag
  /\ resultsDoc = NoDoc
  /\ searchedDoc = NoDoc
  /\ last = Event("mount", 0, NoResponse, "", "none")
  /\ totalPages = 1
  /\ zoom = InitialZoom
  /\ pdfError = NoError
  /\ pdfLoad = "none"
  /\ snippetCall = NoSnippet
  /\ highlightedPdfUrl = NoUrl
  /\ isCreatingHighlight = FALSE
  /\ highlightPending = {}
  /\ pagesPending = EmptyBag
  /\ InitUpload
  /\ InitChat

\* -------------------------------------------------------------- handleSearch
\* faulty variant: the guard tests !text instead of !text.trim()
SearchShortCircuitsNoTrim(text, docId) == docId = NoDoc \/ text = <<>>

\* handleSearch returns before setIsSearching when the id or the trimmed text is empty
SearchShortCircuits(text, docId) == docId = NoDoc \/ IsBlank(text)

\* handleSearch up to its await: the guard, the truncation, setIsSearching(true), fetch
HandleSearchSend(text, docId) ==
  IF SearchShortCircuits(text, docId)
  THEN UNCHANGED <<isSearching, pending, searchedDoc>>
  ELSE /\ BagCardinality(pending) < MaxInFlight
       /\ isSearching' = TRUE
       /\ searchedDoc' = docId
       /\ pending' = pending (+) SetToBag({Request(docId, SearchQueryOf(text))})

SendOutcome(text, docId) ==
  IF SearchShortCircuits(text, docId) THEN "EmptyQuery" ELSE "Issued"

\* faulty variant: length > 1, so a single location counts as none
HasLocationsStrict(resp) == resp.status = "success" /\ Len(resp.locations) > 1

\* data.status === 'success' && data.locations?.length > 0
HasLocations(resp) == resp.status = "success" /\ Len(resp.locations) > 0

\* fetch rejected, or !response.ok made handleSearch throw into its catch
SearchThrows(resp) == resp.net = "failed" \/ ~resp.ok

\* the branch handleSearch takes once the request has settled
SettleOutcome(resp) ==
  IF SearchThrows(resp) THEN "Failed"
  ELSE IF HasLocations(resp) THEN "Found"
  ELSE "NotFound"

\* the alert each branch raises
SettleAlert(resp) ==
  CASE SettleOutcome(resp) = "Failed" -> "searchError"
    [] SettleOutcome(resp) = "NotFound" -> "notFound"
    [] OTHER -> "none"

\* the message of the error that reaches the catch: the TypeError of a rejected
\* fetch, or new Error(`HTTP ${response.status}`)
ErrorMessage(resp) ==
  IF resp.net = "failed" THEN "Failed to fetch"
  ELSE IF ~resp.ok THEN "HTTP status"
  ELSE ""

\* what the alert of the catch adds to its fixed text: nothing (the error is
\* only written to the console)
SettleAlertDetail(resp) == ""

\* faulty variant: setIsSearching(false) at the end of the try, not in a finally
SearchingAfterSettleNoFinally(resp) ==
  IF SearchThrows(resp) THEN isSearching ELSE FALSE

\* finally { setIsSearching(false) }
SearchingAfterSettle(resp) == FALSE

\* faulty variant: a failed request is sent again
PendingAfterSettleRetrying(req, resp) ==
  IF SearchThrows(resp) THEN pending ELSE pending (-) SetToBag({req})

\* the settled request is gone and nothing is sent in its place
PendingAfterSettle(req, resp) == pending (-) SetToBag({req})

\* faulty variant: setCurrentSearchIndex(0) is missing, the old index stays
KeepIndex == currentSearchIndex

\* setCurrentSearchIndex(0)
FirstResult == 0

\* faulty variant: setSearchResults([]) is missing from the not-found branch
ResultsAfterKeeping(resp) ==
  IF SearchThrows(resp) \/ ~HasLocations(resp) THEN searchResults ELSE resp.locations

\* setSearchResults: the locations as received, [] when there are none,
\* nothing when the search failed
ResultsAfter(resp) ==
  CASE SettleOutcome(resp) = "Found" -> resp.locations
    [] SettleOutcome(resp) = "NotFound" -> <<>>
    [] OTHER -> searchResults

IndexAfter(resp) ==
  IF SettleOutcome(resp) = "Found" THEN FirstResult ELSE currentSearchIndex

\* faulty variant: a failed search sends the viewer back to page 1
PageAfterResettingOnFailure(resp) ==
  IF SettleOutcome(resp) = "Found"
  THEN Head(resp.locations).page_number
  ELSE IF SearchThrows(resp) THEN 1 ELSE currentPage

PageAfter(resp) ==
  IF SettleOutcome(resp) = "Found"
  THEN Head(resp.locations).page_number
  ELSE currentPage

\* handleSearch after its await, for a request in flight settling with resp
HandleSearchSettleEffect(req, resp) ==
  /\ BagIn(req, pending)
  /\ pending' = PendingAfterSettle(req, resp)
  /\ searchResults' = ResultsAfter(resp)
  /\ currentSearchIndex' = IndexAfter(resp)
  /\ currentPage' = PageAfter(resp)
  /\ resultsDoc' = (CASE SettleOutcome(resp) = "Found" -> req.docId
                      [] SettleOutcome(resp) = "NotFound" -> NoDoc
                      [] OTHER -> resultsDoc)
  /\ isSearching' = SearchingAfterSettle(resp)
  /\ UNCHANGED <<document, searchText, searchedDoc, viewVars, otherVars>>

HandleSearchSettle(req, resp) ==
  /\ HandleSearchSettleEffect(req, resp)
  /\ last' = [Event("settle", 0, resp, SettleOutcome(resp), SettleAlert(resp))
                EXCEPT !.detail = SettleAlertDetail(resp)]

\* ------------------------------------------------------------ the handlers
\* faulty variant: the whole highlightText is searched for, not its snippet
AutoSearchRawText(d) == d.highlightText

\* const snippet = getSearchableSnippet(document.highlightText)
AutoSearchSnippet(d) == getSearchableSnippet(d.highlightText)

\* the chat page hands down a new document object and the effect on [document] runs
DocumentChangeEffect(d) ==
  /\ document' = d.id
  /\ searchResults' = <<>>
  /\ resultsDoc' = NoDoc
  /\ currentPage' = (IF d.pageNumber # 0 THEN d.pageNumber ELSE 1)
  /\ IF d.highlightText # <<>>
     THEN LET snippet == AutoSearchSnippet(d)
          IN /\ searchText' = snippet
             /\ HandleSearchSend(snippet, d.id)
             /\ last' = Event("documentChange", 0, NoResponse,
                              SendOutcome(snippet, d.id), "none")
     ELSE /\ searchText' = <<>>
          /\ UNCHANGED <<isSearching, pending, searchedDoc>>
          /\ last' = Event("documentChange", 0, NoResponse, "", "none")
  /\ totalPages' = 1
  /\ pdfError' = NoError
  /\ pdfLoad' = (IF d.id = document THEN pdfLoad ELSE "loading")
  /\ UNCHANGED <<currentSearchIndex, zoom>>

DocumentChange(d) ==
  /\ DocumentChangeEffect(d)
  /\ UNCHANGED otherVars

\* onChange of the search box (disabled while isSearching)
TypeSearchText(t) ==
  /\ document # NoDoc
  /\ ~isSearching
  /\ searchText' = t
  /\ last' = Event("type", 0, NoResponse, "", "none")
  /\ UNCHANGED <<document, currentPage, searchResults,
                 currentSearchIndex, isSearching, pending, resultsDoc, searchedDoc,
                 viewVars, otherVars>>

\* Enter in the search box (disabled while isSearching): handleSearch(searchText, document.id)
SearchEnter ==
  /\ document # NoDoc
  /\ ~isSearching
  /\ HandleSearchSend(searchText, document)
  /\ last' = Event("search", 0, NoResponse,
                   SendOutcome(searchText, document), "none")
  /\ UNCHANGED <<document, currentPage, searchText, searchResults,
                 currentSearchIndex, resultsDoc, viewVars, otherVars>>

\* the search button (disabled on a blank text and while isSearching)
SearchClick ==
  /\ document # NoDoc
  /\ ~IsBlank(searchText)
  /\ ~isSearching
  /\ HandleSearchSend(searchText, document)
  /\ last' = Event("search", 0, NoResponse,
                   SendOutcome(searchText, document), "none")
  /\ UNCHANGED <<document, currentPage, searchText, searchResults,
                 currentSearchIndex, resultsDoc, viewVars, otherVars>>

\* searchResults[index] is truthy: index is a position of the array
HasResultAt(index) == index >= 0 /\ index < Len(searchResults)

\* faulty variant: stepping past either end wraps around to the first result
navigateWrapping(index) ==
  IF HasResultAt(index)
  THEN /\ currentSearchIndex' = index
       /\ currentPage' = searchResults[index + 1].page_number
  ELSE IF searchResults # <<>>
  THEN /\ currentSearchIndex' = 0
       /\ currentPage' = searchResults[1].page_number
  ELSE UNCHANGED <<currentSearchIndex, currentPage>>

\* faulty variant: the index is stored without the searchResults[index] guard
navigateUnguarded(index) ==
  /\ currentSearchIndex' = index
  /\ currentPage' = (IF HasResultAt(index) THEN searchResults[index + 1].page_number
                     ELSE currentPage)

\* faulty variant: setCurrentPage is missing, only the index moves
navigateKeepingPage(index) ==
  IF HasResultAt(index)
  THEN /\ currentSearchIndex' = index
       /\ UNCHANGED currentPage
  ELSE UNCHANGED <<currentSearchIndex, currentPage>>

navigateToSearchResult(index) ==
  IF HasResultAt(index)
  THEN /\ currentSearchIndex' = index
       /\ currentPage' = searchResults[index + 1].page_number
  ELSE UNCHANGED <<currentSearchIndex, currentPage>>

\* the previous / next result buttons: navigateToSearchResult(currentSearchIndex + delta)
Navigate(delta) ==
  /\ delta \in {-1, 1}
  /\ navigateToSearchResult(currentSearchIndex + delta)
  /\ last' = Event("navigate", delta, NoResponse, "", "none")
  /\ UNCHANGED <<document, searchText, searchResults, isSearching,
                 pending, resultsDoc, searchedDoc, viewVars, otherVars>>

Next ==
  \/ \E d \in Documents : DocumentChange(d)
  \/ \E t \in TypedTexts : TypeSearchText(t)
  \/ SearchEnter
  \/ SearchClick
  \/ \E req \in BagToSet(pending), resp \in Responses : HandleSearchSettle(req, resp)
  \/ \E delta \in {-1, 1} : Navigate(delta)

Spec == Init /\ [][Next]_vars

\* ------------------------------------------- getSearchableSnippet on its own
MaxTokens == 11     \* a text holds at most MaxTokens tokens
MaxGap == 2         \* tokens are at most MaxGap blanks apart

\* the lengths of a token
TokenLens == {1, 9}

\* 0-based positions of the trimmed text that are made periods
PeriodSets == {{}, {3}, {10}, {11}, {99}, {100}, {3, 20}, {10, 50}, {100, 105}}

\* n tokens of len letters, gap blanks between neighbours
Body(n, len, gap) ==
  [i \in 1..(IF n = 0 THEN 0 ELSE n * len + (n - 1) * gap) |->
     IF (i - 1) % (len + gap) < len THEN "a" ELSE " "]

WithPeriods(s, ps) == [i \in 1..Len(s) |-> IF (i - 1) \in ps THEN "." ELSE s[i]]

Padded(s, pad) == Rep(" ", pad) \o s \o Rep(" ", pad)

SnippetTexts ==
  {Padded(WithPeriods(Body(n, len, gap), ps), pad) :
     n \in 0..MaxTokens, len \in TokenLens, gap \in 1..MaxGap,
     ps \in PeriodSets, pad \in 0..1}

InitSnippetTexts ==
  /\ document = NoDoc
  /\ currentPage = 1
  /\ searchText = <<>>
  /\ searchResults = <<>>
  /\ currentSearchIndex = 0
  /\ isSearching = FALSE
  /\ pending = EmptyBag
  /\ resultsDoc = NoDoc
  /\ searchedDoc = NoDoc
  /\ last = Event("mount", 0, NoResponse, "", "none")
  /\ totalPages = 1
  /\ zoom = InitialZoom
  /\ pdfError = NoError
  /\ pdfLoad = "none"
  /\ snippetCall \in [text : SnippetTexts, derived : {FALSE}, result : {<<>>}]
  /\ highlightedPdfUrl = NoUrl
  /\ isCreatingHighlight = FALSE
  /\ highlightPending = {}
  /\ pagesPending = EmptyBag
  /\ InitUpload
  /\ InitChat

\* getSearchableSnippet(text) is called and returns
DeriveSnippet ==
  /\ ~snippetCall.derived
  /\ snippetCall' = [snippetCall EXCEPT !.derived = TRUE,
                                !.result = getSearchableSnippet(snippetCall.text)]
  /\ UNCHANGED <<document, currentPage, searchText, searchResults,
                 currentSearchIndex, isSearching, pending, resultsDoc, searchedDoc,
                 last, viewVars, highlightVars, pagesState>>

NextSnippet == DeriveSnippet

SpecSnippet == InitSnippetTexts /\ [][NextSnippet]_vars

\* ------------------------------------------- the page and zoom controls
ZoomMin == 50       \* Math.max(50, z - 25)
ZoomMax == 200      \* Math.min(200, z + 25)
ZoomStep == 25

\* the page counts a PDF file can report
PageCounts == {1, 3}

\* <Document key={document.url} file={document.url}> finished loading the file
onDocumentLoadSuccess(numPages) ==
  /\ pdfLoad = "loading"
  /\ totalPages' = numPages
  /\ pdfError' = NoError
  /\ pdfLoad' = "loaded"
  /\ last' = Event("loadSuccess", 0, NoResponse, "", "none")
  /\ UNCHANGED <<document, currentPage, searchText, searchResults, currentSearchIndex,
                 isSearching, pending, resultsDoc, searchedDoc, zoom, otherVars>>

\* the Document component failed to load the file
onDocumentLoadError ==
  /\ pdfLoad = "loading"
  /\ pdfError' = "loadError"
  /\ pdfLoad' = "failed"
  /\ last' = Event("loadError", 0, NoResponse, "", "none")
  /\ UNCHANGED <<document, currentPage, searchText, searchResults, currentSearchIndex,
                 isSearching, pending, resultsDoc, searchedDoc, totalPages, zoom,
                 otherVars>>

\* the previous-page button, disabled when currentPage <= 1
PrevPage ==
  /\ document # NoDoc
  /\ ~(currentPage <= 1)
  /\ currentPage' = Max(1, currentPage - 1)
  /\ last' = Event("page", -1, NoResponse, "", "none")
  /\ UNCHANGED <<document, searchText, searchResults, currentSearchIndex,
                 isSearching, pending, resultsDoc, searchedDoc, viewVars, otherVars>>

\* the next-page button, disabled when currentPage >= totalPages
NextPage ==
  /\ document # NoDoc
  /\ ~(currentPage >= totalPages)
  /\ currentPage' = Min(totalPages, currentPage + 1)
  /\ last' = Event("page", 1, NoResponse, "", "none")
  /\ UNCHANGED <<document, searchText, searchResults, currentSearchIndex,
                 isSearching, pending, resultsDoc, searchedDoc, viewVars, otherVars>>

\* faulty variant: zooming in also rescales the stored boxes
ZoomInScalingResults ==
  /\ document # NoDoc
  /\ zoom' = Min(ZoomMax, zoom + ZoomStep)
  /\ searchResults' =
       [i \in 1..Len(searchResults) |->
          [searchResults[i] EXCEPT !.bbox =
             [x0 |-> (@.x0 * zoom') \div zoom, y0 |-> (@.y0 * zoom') \div zoom,
              x1 |-> (@.x1 * zoom') \div zoom, y1 |-> (@.y1 * zoom') \div zoom]]]
  /\ last' = Event("zoom", 1, NoResponse, "", "none")
  /\ UNCHANGED <<document, currentPage, searchText, currentSearchIndex,
                 isSearching, pending, resultsDoc, searchedDoc, totalPages, pdfError,
                 pdfLoad, otherVars>>

\* the zoom-in button: setZoom(z => Math.min(200, z + 25))
ZoomIn ==
  /\ document # NoDoc
  /\ zoom' = Min(ZoomMax, zoom + ZoomStep)
  /\ last' = Event("zoom", 1, NoResponse, "", "none")
  /\ UNCHANGED <<document, currentPage, searchText, searchResults, currentSearchIndex,
                 isSearching, pending, resultsDoc, searchedDoc, totalPages, pdfError,
                 pdfLoad, otherVars>>

\* the zoom-out button: setZoom(z => Math.max(50, z - 25))
ZoomOut ==
  /\ document # NoDoc
  /\ zoom' = Max(ZoomMin, zoom - ZoomStep)
  /\ last' = Event("zoom", -1, NoResponse, "", "none")
  /\ UNCHANGED <<document, currentPage, searchText, searchResults, currentSearchIndex,
                 isSearching, pending, resultsDoc, searchedDoc, totalPages, pdfError,
                 pdfLoad, otherVars>>

\* the yellow overlay of a result on the current page, in hundredths of a pixel:
\* the stored box times scale = zoom / 100, computed while rendering
HighlightStyle(result) ==
  [left |-> result.bbox.x0 * zoom,
   top |-> result.bbox.y0 * zoom,
   width |-> (result.bbox.x1 - result.bbox.x0) * zoom,
   height |-> (result.bbox.y1 - result.bbox.y0) * zoom]

\* the overlays drawn: one for each result on the current page
Overlays ==
  {HighlightStyle(searchResults[i]) :
     i \in {j \in 1..Len(searchResults) : searchResults[j].page_number = currentPage}}

\* the documents and answers of the viewer with its page and zoom controls
ViewDocuments == [id : {"docA"}, pageNumber : {0, 7}, highlightText : {<<>>, <<"b">>}]

ViewResponses ==
  {r \in Responses : Len(r.locations) <= 1} \cup
  {[net |-> "answered", ok |-> TRUE, status |-> "success",
    locations |-> <<[page_number |-> 1, bbox |-> Box], [page_number |-> 7, bbox |-> Box]>>]}

NextView ==
  \/ \E d \in ViewDocuments : DocumentChange(d)
  \/ SearchClick
  \/ \E req \in BagToSet(pending), resp \in ViewResponses : HandleSearchSettle(req, resp)
  \/ \E delta \in {-1, 1} : Navigate(delta)
  \/ \E numPages \in PageCounts : onDocumentLoadSuccess(numPages)
  \/ onDocumentLoadError
  \/ PrevPage
  \/ NextPage
  \/ ZoomIn
  \/ ZoomOut

SpecView == Init /\ [][NextView]_vars

\* ----------------------- the revision of the viewer with the highlight request
\* (src/src/components/Chat/EnhancedPDFViewer.tsx: no reset and no automatic
\* search on a document change, a page-count request, a highlight request)
MisfiledDocId == "43bc0171-224a-4d7b-9982-daf480077b70"
RemappedDocId == "d5c75f57-7dff-4607-a750-30ec2d690e84"

\* const actualDocumentId = document.id === '43bc...' ? 'd5c7...' : document.id
actualDocumentId(id) == IF id = MisfiledDocId THEN RemappedDocId ELSE id

MaxShownLen == 50   \* document.highlightText.trim().slice(0, 50)

HlDocuments ==
  [id : {"docA", MisfiledDocId}, pageNumber : {0, 2},
   highlightText : {<<>>, <<" ", "b", " ">>}]

HlTypedTexts == {<<" ">>}

\* answers to a search of this viewer: the failures, no location, one location,
\* two locations
HlResponses ==
  {r \in Responses : r.locations = <<>>} \cup
  {[net |-> "answered", ok |-> TRUE, status |-> "success",
    locations |-> <<[page_number |-> 1, bbox |-> Box], [page_number |-> 2, bbox |-> Box]>>]}

\* what can come back for a page-count request
PagesResponses ==
  {[net |-> "failed", status |-> "error", total_pages |-> 0],
   [net |-> "answered", status |-> "error", total_pages |-> 0]}
  \cup [net : {"answered"}, status : {"success"}, total_pages : PageCounts]

\* what can come back for a highlight request; a success names the copy made
HighlightResponses == {r \in Responses : r.locations = <<>>}

HighlightRequest(docId, page, text) ==
  [document_id |-> docId, page_number |-> page, search_text |-> text]

\* data.highlighted_pdf_url of the answer to req: the copy of its document and page
UrlOf(req) == [document_id |-> req.document_id, page_number |-> req.page_number]

MaxPagesInFlight == 1  \* page-count requests the model lets be in flight together

\* the effect on [document]: the page, the page-count request, the search box
HlDocumentChange(d) ==
  /\ BagCardinality(pagesPending) < MaxPagesInFlight
  /\ document' = d.id
  /\ currentPage' = (IF d.pageNumber # 0 THEN d.pageNumber ELSE currentPage)
  /\ pagesPending' = pagesPending (+) SetToBag({d.id})
  /\ searchText' = (IF d.highlightText # <<>>
                    THEN Slice(Trim(d.highlightText), MaxShownLen)
                    ELSE searchText)
  /\ pdfLoad' = (IF d.id = document THEN pdfLoad ELSE "loading")
  /\ last' = Event("documentChange", 0, NoResponse, "", "none")
  /\ UNCHANGED <<searchResults, currentSearchIndex, isSearching, pending, resultsDoc,
                 searchedDoc, totalPages, zoom, pdfError, snippetCall,
                 highlightedPdfUrl, isCreatingHighlight, highlightPending, pagesState>>

\* fetchDocumentPages after its await
fetchDocumentPagesSettle(documentId, resp) ==
  /\ BagIn(documentId, pagesPending)
  /\ pagesPending' = pagesPending (-) SetToBag({documentId})
  /\ totalPages' = (IF resp.net = "answered" /\ resp.status = "success"
                    THEN resp.total_pages ELSE totalPages)
  /\ last' = Event("pagesSettle", 0, NoResponse, "", "none")
  /\ UNCHANGED <<document, currentPage, searchText, searchResults, currentSearchIndex,
                 isSearching, pending, resultsDoc, searchedDoc, zoom, pdfError, pdfLoad,
                 snippetCall, highlightedPdfUrl, isCreatingHighlight, highlightPending,
                 pagesState>>

\* onChange of the search box: e.target.value.slice(0, 100)
HlTypeSearchText(t) ==
  /\ document # NoDoc
  /\ ~isSearching
  /\ searchText' = Slice(t, MaxQueryLen)
  /\ last' = Event("type", 0, NoResponse, "", "none")
  /\ UNCHANGED <<document, currentPage, searchResults,
                 currentSearchIndex, isSearching, pending, resultsDoc, searchedDoc,
                 viewVars, otherVars>>

\* Enter in the search box: handleSearch(searchText), sent for actualDocumentId
HlSearchEnter ==
  /\ document # NoDoc
  /\ ~isSearching
  /\ HandleSearchSend(searchText, actualDocumentId(document))
  /\ last' = Event("search", 0, NoResponse,
                   SendOutcome(searchText, actualDocumentId(document)), "none")
  /\ UNCHANGED <<document, currentPage, searchText, searchResults,
                 currentSearchIndex, resultsDoc, viewVars, otherVars>>

\* the search button: handleSearch(searchText), sent for actualDocumentId
HlSearchClick ==
  /\ document # NoDoc
  /\ ~IsBlank(searchText)
  /\ ~isSearching
  /\ HandleSearchSend(searchText, actualDocumentId(document))
  /\ last' = Event("search", 0, NoResponse,
                   SendOutcome(searchText, actualDocumentId(document)), "none")
  /\ UNCHANGED <<document, currentPage, searchText, searchResults,
                 currentSearchIndex, resultsDoc, viewVars, otherVars>>

\* handleSearch after its await; the alert of the catch shows error.message
HlHandleSearchSettle(req, resp) ==
  /\ HandleSearchSettleEffect(req, resp)
  /\ last' = [Event("settle", 0, resp, SettleOutcome(resp), SettleAlert(resp))
                EXCEPT !.detail = ErrorMessage(resp)]

\* handleCreateHighlight up to its await (the button is disabled on a blank
\* search text and while isCreatingHighlight)
handleCreateHighlight ==
  /\ document # NoDoc
  /\ ~IsBlank(searchText)
  /\ ~isCreatingHighlight
  /\ isCreatingHighlight' = TRUE
  /\ highlightPending' = highlightPending \cup
       {HighlightRequest(actualDocumentId(document), currentPage, searchText)}
  /\ last' = Event("highlight", 0, NoResponse, "Issued", "none")
  /\ UNCHANGED <<document, currentPage, searchText, searchResults, currentSearchIndex,
                 isSearching, pending, resultsDoc, searchedDoc, viewVars, snippetCall,
                 highlightedPdfUrl, pagesPending, pagesState>>

\* the answer to a highlight request made a copy
HighlightCreated(resp) == resp.net = "answered" /\ resp.ok /\ resp.status = "success"

\* handleCreateHighlight after its await
handleCreateHighlightSettle(req, resp) ==
  /\ req \in highlightPending
  /\ highlightPending' = highlightPending \ {req}
  /\ highlightedPdfUrl' = (IF HighlightCreated(resp) THEN UrlOf(req) ELSE highlightedPdfUrl)
  /\ isCreatingHighlight' = FALSE
  /\ last' = [Event("highlightSettle", 0, resp,
                    IF HighlightCreated(resp) THEN "Created" ELSE "Failed",
                    IF HighlightCreated(resp) THEN "highlightCreated" ELSE "highlightError")
                EXCEPT !.detail = ErrorMessage(resp)]
  /\ UNCHANGED <<document, currentPage, searchText, searchResults, currentSearchIndex,
                 isSearching, pending, resultsDoc, searchedDoc, viewVars, snippetCall,
                 pagesPending, pagesState>>

NextHighlight ==
  \/ \E d \in HlDocuments : HlDocumentChange(d)
  \/ \E id \in BagToSet(pagesPending), resp \in PagesResponses :
       fetchDocumentPagesSettle(id, resp)
  \/ \E t \in HlTypedTexts : HlTypeSearchText(t)
  \/ HlSearchEnter
  \/ HlSearchClick
  \/ \E req \in BagToSet(pending), resp \in HlResponses : HlHandleSearchSettle(req, resp)
  \/ \E delta \in {-1, 1} : Navigate(delta)
  \/ PrevPage
  \/ NextPage
  \/ handleCreateHighlight
  \/ \E req \in highlightPending, resp \in HighlightResponses :
       handleCreateHighlightSettle(req, resp)

SpecHighlight == Init /\ [][NextHighlight]_vars

\* ------------------------------------------ the upload page (DocumentUpload)
maxAttempts == 60   \* const maxAttempts = 60
MaxPolls == 62      \* status requests the model lets one upload send

\* what /health can do: a 2xx answer, another answer, no answer
HealthResponses == {"ok", "non2xx", "failed"}

\* what GET /documents can do: no answer, a non-2xx answer, a 2xx answer whose
\* status is not success, a 2xx answer with a list of one or of two documents
ListResponses == {"failed", "non2xx", "notSuccess", "one", "two"}

\* the answers to the list request of the upload page under study
UploadListResponses == {"failed", "notSuccess", "one"}

\* data.data of a successful list answer
ListData(resp) == IF resp = "one" THEN {"d1"} ELSE {"d1", "d2"}

\* what POST /api/upload can do
UploadResponses == {"ok", "non2xx", "failed"}

\* what a status request can bring: a processing_status, or no usable answer
\* (fetch or json() throws)
StatusResponses == {"pending", "processing", "completed", "failed", "error"}

\* the file the user picks
FileKinds == {"pdf", "notPdf", "tooBig"}

\* fetchDocuments up to its await, run in a closure that holds serverStatus seen:
\* it returns with an error before the request unless seen is connected
fetchDocumentsStart(seen) ==
  IF seen # "connected"
  THEN /\ error' = "notConnected"
       /\ UNCHANGED loading
  ELSE /\ loading' = TRUE
       /\ UNCHANGED error

\* whether fetchDocuments sent its request
fetchDocumentsSent(seen) == seen = "connected"

\* fetchDocuments after its await
fetchDocumentsSettle(resp) ==
  /\ documents' = (IF resp \in {"one", "two"} THEN ListData(resp) ELSE documents)
  /\ error' = (CASE resp \in {"failed", "non2xx"} -> "listFailed"
                 [] resp \in {"one", "two"} -> ""
                 [] OTHER -> error)
  /\ loading' = FALSE

\* the refresh button (disabled while loading or checking) and the retry button
\* shown while disconnected: handleRefresh up to the await in checkServerConnection
handleRefresh ==
  /\ (serverStatus # "checking" /\ ~loading) \/ serverStatus = "disconnected"
  /\ refreshCalls' = refreshCalls \cup {RefreshCall("health", serverStatus)}
  /\ serverStatus' = "checking"
  /\ uploadLast' = [op |-> "refresh", resp |-> ""]
  /\ UNCHANGED <<documents, loading, error, selectedFile, uploadProgress, attempts,
                 uploadCall, polls, viewerVars, chatVars>>

\* checkServerConnection after its await, and handleRefresh going on to
\* fetchDocuments when it returned true
checkServerConnectionSettle(call, resp) ==
  /\ call \in refreshCalls
  /\ call.phase = "health"
  /\ CASE resp = "ok" ->
            /\ serverStatus' = "connected"
            /\ fetchDocumentsStart(call.seen)
            /\ refreshCalls' =
                 (refreshCalls \ {call}) \cup
                 (IF fetchDocumentsSent(call.seen)
                  THEN {RefreshCall("documents", call.seen)} ELSE {})
       [] resp = "failed" ->
            /\ serverStatus' = "disconnected"
            /\ refreshCalls' = refreshCalls \ {call}
            /\ UNCHANGED <<loading, error>>
       [] OTHER ->
            /\ refreshCalls' = refreshCalls \ {call}
            /\ UNCHANGED <<serverStatus, loading, error>>
  /\ uploadLast' = [op |-> "healthSettle", resp |-> resp]
  /\ UNCHANGED <<documents, selectedFile, uploadProgress, attempts, uploadCall, polls,
                 viewerVars, chatVars>>

\* the fetchDocuments of a handleRefresh after its await
refreshDocumentsSettle(call, resp) ==
  /\ call \in refreshCalls
  /\ call.phase = "documents"
  /\ fetchDocumentsSettle(resp)
  /\ refreshCalls' = refreshCalls \ {call}
  /\ uploadLast' = [op |-> "listSettle", resp |-> resp]
  /\ UNCHANGED <<serverStatus, selectedFile, uploadProgress, attempts, uploadCall, polls,
                 viewerVars, chatVars>>

\* the file input (shown without an upload under way, disabled while loading
\* and unless connected)
handleFileSelect(kind) ==
  /\ uploadProgress = NoProgress
  /\ ~loading
  /\ serverStatus = "connected"
  /\ IF kind = "pdf"
     THEN selectedFile' = TRUE /\ error' = ""
     ELSE error' = kind /\ UNCHANGED selectedFile
  /\ uploadLast' = [op |-> "select", resp |-> kind]
  /\ UNCHANGED <<serverStatus, documents, loading, uploadProgress, attempts,
                 refreshCalls, uploadCall, polls, viewerVars, chatVars>>

\* the upload button: handleUpload up to its await
handleUpload ==
  /\ uploadProgress = NoProgress
  /\ selectedFile
  /\ ~loading
  /\ serverStatus = "connected"
  /\ error' = ""
  /\ uploadProgress' = [stage |-> "uploading", progress |-> 0]
  /\ uploadCall' = "uploading"
  /\ polls' = 0
  /\ uploadLast' = [op |-> "upload", resp |-> ""]
  /\ UNCHANGED <<serverStatus, documents, loading, selectedFile, attempts,
                 refreshCalls, viewerVars, chatVars>>

\* handleUpload after its await: on a 2xx answer pollProcessingStatus starts
\* with attempts 0 and poll sends the first status request
handleUploadSettle(resp) ==
  /\ uploadCall = "uploading"
  /\ IF resp = "ok"
     THEN /\ uploadProgress' = [stage |-> "processing", progress |-> 30]
          /\ attempts' = 0
          /\ uploadCall' = "status"
          /\ polls' = 1
     ELSE /\ uploadProgress' = [stage |-> "failed", progress |-> 0]
          /\ uploadCall' = "none"
          /\ UNCHANGED <<attempts, polls>>
  /\ uploadLast' = [op |-> "uploadSettle", resp |-> resp]
  /\ UNCHANGED <<serverStatus, documents, loading, error, selectedFile,
                 refreshCalls, viewerVars, chatVars>>

\* poll after its await
pollSettle(status) ==
  /\ uploadCall = "status"
  /\ CASE status = "completed" ->
            /\ uploadProgress' = [stage |-> "completed", progress |-> 100]
            /\ fetchDocumentsStart("connected")
            /\ uploadCall' = "documents"
            /\ UNCHANGED attempts
       [] status = "processing" ->
            /\ attempts' = attempts + 1
            /\ IF attempts + 1 < maxAttempts
               THEN /\ uploadProgress' = [stage |-> "processing",
                                          progress |-> Min(30 + attempts * 2, 90)]
                    /\ uploadCall' = "timer"
               ELSE /\ uploadProgress' = [stage |-> "failed", progress |-> 0]
                    /\ uploadCall' = "none"
            /\ UNCHANGED <<loading, error>>
       [] status = "pending" ->
            /\ uploadCall' = "timer"
            /\ UNCHANGED <<uploadProgress, attempts, loading, error>>
       [] OTHER ->
            /\ uploadProgress' = [stage |-> "failed", progress |-> 0]
            /\ uploadCall' = "none"
            /\ UNCHANGED <<attempts, loading, error>>
  /\ uploadLast' = [op |-> "pollSettle", resp |-> status]
  /\ UNCHANGED <<serverStatus, documents, selectedFile, refreshCalls, polls, viewerVars, chatVars>>

\* setTimeout(poll, 5000) fires: poll sends the next status request
pollTimer ==
  /\ uploadCall = "timer"
  /\ polls < MaxPolls
  /\ uploadCall' = "status"
  /\ polls' = polls + 1
  /\ uploadLast' = [op |-> "poll", resp |-> ""]
  /\ UNCHANGED <<serverStatus, documents, loading, error, selectedFile, uploadProgress,
                 attempts, refreshCalls, viewerVars, chatVars>>

\* the fetchDocuments of the completed branch after its await; poll goes on to
\* set the 3-second timer
pollDocumentsSettle(resp) ==
  /\ uploadCall = "documents"
  /\ fetchDocumentsSettle(resp)
  /\ uploadCall' = "resetTimer"
  /\ uploadLast' = [op |-> "listSettle", resp |-> resp]
  /\ UNCHANGED <<serverStatus, selectedFile, uploadProgress, attempts, refreshCalls,
                 polls, viewerVars, chatVars>>

\* the 3-second timer of the completed branch fires
resetTimer ==
  /\ uploadCall = "resetTimer"
  /\ uploadProgress' = NoProgress
  /\ selectedFile' = FALSE
  /\ uploadCall' = "none"
  /\ uploadLast' = [op |-> "reset", resp |-> ""]
  /\ UNCHANGED <<serverStatus, documents, loading, error, attempts, refreshCalls,
                 polls, viewerVars, chatVars>>

\* the retry button of a failed upload
handleRetry ==
  /\ uploadProgress.stage = "failed"
  /\ uploadProgress' = NoProgress
  /\ error' = ""
  /\ uploadLast' = [op |-> "retry", resp |-> ""]
  /\ UNCHANGED <<serverStatus, documents, loading, selectedFile, attempts,
                 refreshCalls, uploadCall, polls, viewerVars, chatVars>>

NextUpload ==
  \/ handleRefresh
  \/ \E call \in refreshCalls, resp \in HealthResponses :
       checkServerConnectionSettle(call, resp)
  \/ \E call \in refreshCalls, resp \in UploadListResponses :
       refreshDocumentsSettle(call, resp)
  \/ \E kind \in FileKinds : handleFileSelect(kind)
  \/ handleUpload
  \/ \E resp \in UploadResponses : handleUploadSettle(resp)
  \/ \E status \in StatusResponses : pollSettle(status)
  \/ pollTimer
  \/ \E resp \in UploadListResponses : pollDocumentsSettle(resp)
  \/ resetTimer
  \/ handleRetry

SpecUpload == Init /\ [][NextUpload]_vars

\* ---------------------------------------------------------- the chat page
MaxSends == 2
MaxRequests == 2

\* the texts of the message box handed to handleSendMessage
ChatMessages == { <<>>, <<" ">>, <<"q">>, <<" ", "q">> }

\* the sources an answer can carry: full_content is optional (empty: absent)
ChatSources ==
  { [document_id |-> "docA", page_number |-> 1, full_content |-> <<"b">>],
    [document_id |-> "docB", page_number |-> 7, full_content |-> <<>>] }

SourceLists ==
  { <<>>,
    <<[document_id |-> "docA", page_number |-> 1, full_content |-> <<"b">>],
      [document_id |-> "docB", page_number |-> 7, full_content |-> <<>>]>> }

\* what can come back for POST /api/chat: a transport failure, a non-2xx
\* answer, or a 2xx answer with a body
ChatResponses ==
  {[net |-> "failed", ok |-> FALSE, status |-> "error", answer |-> <<>>, sources |-> <<>>],
   [net |-> "answered", ok |-> FALSE, status |-> "error", answer |-> <<>>, sources |-> <<>>],
   [net |-> "answered", ok |-> TRUE, status |-> "error", answer |-> <<>>, sources |-> <<>>]}
  \cup [net : {"answered"}, ok : {TRUE}, status : {"success"}, answer : {<<"a">>},
        sources : SourceLists]

\* what can come back for GET /documents/{id}
InfoResponses == {"failed", "non2xx", "notSuccess", "success"}

\* data.data of a document: its filename and url
InfoOf(documentId) ==
  IF documentId = "docA" THEN [filename |-> "a.pdf", url |-> "/files/a.pdf"]
  ELSE [filename |-> "b.pdf", url |-> "/files/b.pdf"]

\* the content of the message shown when the request failed
Apology == <<"apology">>

userMessage(message) == [type |-> "user", content |-> message, sources |-> <<>>]

assistantMessage(data) == [type |-> "assistant", content |-> data.answer, sources |-> data.sources]

errorMessage == [type |-> "assistant", content |-> Apology, sources |-> <<>>]

\* if (!message.trim() || isLoading) return, with a guard that does not trim
SendRejectedNoTrim(message, busy) == message = <<>> \/ busy

\* if (!message.trim() || isLoading) return
SendRejected(message, busy) == IsBlank(message) \/ busy

\* the try block reaches setMessages(assistantMessage)
ChatAnswered(resp) == resp.net = "answered" /\ resp.ok /\ resp.status = "success"

\* the message handleSendMessage appends once the request settled
SettledMessage(resp) == IF ChatAnswered(resp) THEN assistantMessage(resp) ELSE errorMessage

\* what setCurrentDocument is called with
ShownDocument(documentId, pageNumber, highlightText) ==
  [id |-> documentId, filename |-> InfoOf(documentId).filename, url |-> InfoOf(documentId).url,
   pageNumber |-> pageNumber, highlightText |-> highlightText]

\* a handleSourceClick call waiting for the document info
SourceCall(n, documentId, pageNumber, highlightText) ==
  [n |-> n, id |-> documentId, pageNumber |-> pageNumber, highlightText |-> highlightText]

\* handleSourceClick up to its await, with the documentCache of the closure it
\* runs in: a cached document is shown (the await of a settled promise only
\* yields to microtasks), any other is looked up
SourceClickEffect(documentId, pageNumber, highlightText, cache, viewerShown) ==
  /\ requests' = requests + 1
  /\ requested' = [document_id |-> documentId, page_number |-> pageNumber,
                   full_content |-> highlightText]
  /\ IF documentId \in cache
     THEN /\ currentDocument' = ShownDocument(documentId, pageNumber, highlightText)
          /\ showPDFViewer' = TRUE
          /\ requestedOk' = TRUE
          /\ UNCHANGED sourceCalls
     ELSE /\ sourceCalls' = sourceCalls \cup
                            {SourceCall(requests + 1, documentId, pageNumber, highlightText)}
          /\ requestedOk' = FALSE
          /\ showPDFViewer' = viewerShown
          /\ UNCHANGED currentDocument

\* handleSendMessage(message) up to its await
handleSendMessage(message) ==
  /\ sends < MaxSends
  /\ IF SendRejected(message, isLoading)
     THEN /\ chatLast' = [op |-> "send", accepted |-> FALSE, ok |-> FALSE]
          /\ UNCHANGED <<messages, isLoading, showPDFViewer, sendCall, sends>>
     ELSE /\ messages' = Append(messages, userMessage(message))
          /\ isLoading' = TRUE
          /\ showPDFViewer' = TRUE
          /\ sendCall' = [active |-> TRUE, message |-> message, cache |-> documentCache]
          /\ sends' = sends + 1
          /\ chatLast' = [op |-> "send", accepted |-> TRUE, ok |-> FALSE]
  /\ UNCHANGED <<currentDocument, documentCache, sourceCalls, requests, requested, requestedOk,
                 viewerVars, uploadVars>>

\* handleSendMessage after its await: the answer or the apology, the first
\* source selected, isLoading reset
handleSendMessageSettle(resp) ==
  /\ sendCall.active
  /\ messages' = Append(messages, SettledMessage(resp))
  /\ isLoading' = FALSE
  /\ sendCall' = NoSend
  /\ chatLast' = [op |-> "sendSettle", accepted |-> TRUE, ok |-> ChatAnswered(resp)]
  /\ IF ChatAnswered(resp) /\ Len(resp.sources) > 0
     THEN SourceClickEffect(resp.sources[1].document_id, resp.sources[1].page_number, <<>>,
                            sendCall.cache, showPDFViewer)
     ELSE UNCHANGED <<showPDFViewer, currentDocument, sourceCalls, requests, requested,
                      requestedOk>>
  /\ UNCHANGED <<documentCache, sends, viewerVars, uploadVars>>

\* a source card of a message is clicked (withText: its highlight button)
handleSourceClick(source, withText) ==
  /\ requests < MaxRequests
  /\ \E i \in DOMAIN messages : \E j \in DOMAIN messages[i].sources :
       messages[i].sources[j] = source
  /\ withText => source.full_content # <<>>
  /\ SourceClickEffect(source.document_id, source.page_number,
                       IF withText THEN source.full_content ELSE <<>>,
                       documentCache, showPDFViewer)
  /\ chatLast' = [op |-> "sourceClick", accepted |-> TRUE, ok |-> FALSE]
  /\ UNCHANGED <<messages, isLoading, documentCache, sendCall, sends, viewerVars, uploadVars>>

\* fetchDocumentInfo after its await and the rest of handleSourceClick
fetchDocumentInfoSettle(call, resp) ==
  /\ call \in sourceCalls
  /\ sourceCalls' = sourceCalls \ {call}
  /\ IF resp = "success"
     THEN /\ documentCache' = documentCache \cup {call.id}
          /\ currentDocument' = ShownDocument(call.id, call.pageNumber, call.highlightText)
          /\ showPDFViewer' = TRUE
     ELSE UNCHANGED <<documentCache, currentDocument, showPDFViewer>>
  /\ requestedOk' = IF call.n = requests THEN resp = "success" ELSE requestedOk
  /\ chatLast' = [op |-> "infoSettle", accepted |-> TRUE, ok |-> resp = "success"]
  /\ UNCHANGED <<messages, isLoading, sendCall, requests, sends, requested, viewerVars,
                 uploadVars>>

NextChat ==
  \/ \E message \in ChatMessages : handleSendMessage(message)
  \/ \E resp \in ChatResponses : handleSendMessageSettle(resp)
  \/ \E source \in ChatSources, withText \in BOOLEAN : handleSourceClick(source, withText)
  \/ \E call \in sourceCalls, resp \in InfoResponses : fetchDocumentInfoSettle(call, resp)

SpecChat == Init /\ [][NextChat]_vars

\* --------------------------------- the automatic search of a source passage
\* the passage of the end-to-end scenario, up to where its quotation stops
ScenarioHead ==
  <<"G", "o", "v", "e", "r", "n", "m", "e", "n", "t", " ", "o", "f", "f",
    "i", "c", "e", "r", "s", " ", "w", "i", "t", "h", " ", "a", "t", " ",
    "l", "e", "a", "s", "t", " ", "3", " ", "m", "o", "n", "t", "h", "s",
    " ", "o", "f", " ", "e", "m", "p", "l", "o", "y", "m", "e", "n", "t",
    " ", "m", "u", "s", "t", " ", "s", "u", "b", "m", "i", "t", " ", "p",
    "r", "o", "o", "f">>

\* how the passage can go on: the three periods of the quotation taken as its
\* characters, a continuation without a period, and a continuation whose first
\* period is past position 100
ScenarioTails ==
  { Rep(".", 3),
    <<" ", "o", "f", " ", "r", "e", "s", "i", "d", "e", "n", "c", "e">>,
    <<" ", "o", "f", " ", "r", "e", "s", "i", "d", "e", "n", "c", "e", " ",
      "a", "n", "d", " ", "o", "f", " ", "i", "n", "c", "o", "m", "e", " ",
      "a", "t", " ", "t", "h", "e", " ", "w", "a", "r", "d", " ", "o", "f",
      "f", "i", "c", "e", ".">> }

\* the passages as they are, and each with a blank before and after it
ScenarioTexts ==
  {Padded(ScenarioHead \o tail, pad) : tail \in ScenarioTails, pad \in 0..1}

ScenarioDocuments == [id : {"docA"}, pageNumber : {0}, highlightText : ScenarioTexts]

\* a source click hands over a document whose highlightText is the passage; the
\* call of getSearchableSnippet is recorded
ScenarioDocumentChange(d) ==
  /\ DocumentChangeEffect(d)
  /\ snippetCall' = [text |-> d.highlightText, derived |-> TRUE,
                     result |-> getSearchableSnippet(d.highlightText)]
  /\ UNCHANGED <<highlightVars, pagesState>>

NextScenario ==
  \/ \E d \in ScenarioDocuments : ScenarioDocumentChange(d)
  \/ \E req \in BagToSet(pending), resp \in Responses : HandleSearchSettle(req, resp)
  \/ SearchClick

SpecScenario == Init /\ [][NextScenario]_vars

\* ------------------------------------------------------------ properties
InFlight == BagCardinality(pending)

Clamp(i, lo, hi) == Max(lo, Min(i, hi))

\* the last step was handleSearch called by the user (Enter or the button)
JustSearched == last.op = "search"

\* the last step was a request settling with a 2xx answer that parsed
JustAnswered == last.op = "settle" /\ last.resp.net = "answered" /\ last.resp.ok

\* C1: once every response has arrived, the results shown are those of the search
\* started last: the response of a search started before it is discarded,
\* whichever of the two arrives first.
C1_StaleResultDiscarded ==
  (InFlight = 0 /\ searchResults # <<>>) => resultsDoc = searchedDoc

\* C2: at most one page-navigation request is in flight at any time.
C2_AtMostOneInFlight == InFlight <= 1

\* C3: handleSearch with an empty or whitespace-only text sends no request and
\* leaves searchResults, currentSearchIndex and isSearching as they were; the
\* automatic search of a document change with such a snippet sends nothing either.
C3_EmptyQueryShortCircuits ==
  [][ /\ (last'.op = "search" /\ IsBlank(searchText))
         => /\ last'.outcome = "EmptyQuery"
            /\ UNCHANGED <<pending, searchResults, currentSearchIndex, isSearching>>
      /\ (last'.op = "documentChange" /\ IsBlank(searchText'))
         => UNCHANGED <<pending, isSearching>> ]_vars

C3_Witness ==
  JustSearched /\ last.outcome = "EmptyQuery" /\ searchText # <<>> /\ IsBlank(searchText)

\* q is the first n characters of s
IsPrefixOfLength(q, s, n) == Len(q) = n /\ Len(s) >= n /\ \A i \in 1..n : q[i] = s[i]

\* q is the trimmed text, cut to its first MaxQueryLen characters when longer
IsBoundedQueryOf(q, text) ==
  IF Len(Trim(text)) > MaxQueryLen
  THEN IsPrefixOfLength(q, Trim(text), MaxQueryLen)
  ELSE q = Trim(text)

\* C4: every query in flight is non-blank and at most 100 characters long, and a
\* search with a non-blank text sends the trimmed text cut to its first 100
\* characters, however long the text is.
C4_QueryBounded ==
  /\ \A r \in BagToSet(pending) :
       Len(r.search_text) <= MaxQueryLen /\ ~IsBlank(r.search_text)
  /\ (JustSearched /\ ~IsBlank(searchText))
     => \E r \in BagToSet(pending) :
          r.docId = document /\ IsBoundedQueryOf(r.search_text, searchText)

C4_Witness ==
  /\ JustSearched
  /\ Len(Trim(searchText)) > MaxQueryLen
  /\ \E r \in BagToSet(pending) : Len(r.search_text) = MaxQueryLen

\* C5 as stated: currentSearchIndex is a position of searchResults when there are
\* results, and with no results it is undefined: no number, or at most the 0 the
\* state starts from, never a position left over from an earlier result set.
C5_IndexUndefinedWhenEmpty ==
  IF searchResults # <<>>
  THEN currentSearchIndex \in 0..(Len(searchResults) - 1)
  ELSE currentSearchIndex \notin Int \/ currentSearchIndex = 0

\* C5 amended: currentSearchIndex is always a natural number, and a position of
\* searchResults whenever there are results (with no results it keeps the number
\* it had).
C5_IndexInRange ==
  /\ currentSearchIndex \in Nat
  /\ searchResults # <<>> => currentSearchIndex < Len(searchResults)

C5_Witness == searchResults = <<>> /\ currentSearchIndex > 0

\* C6: after a response with N >= 1 locations, searchResults is exactly the
\* response's list (same length, same order, duplicates kept) and the index is 0.
C6_FoundKeepsBackendOrder ==
  (JustAnswered /\ last.resp.status = "success" /\ Len(last.resp.locations) >= 1)
  => /\ searchResults = last.resp.locations
     /\ Len(searchResults) = Len(last.resp.locations)
     /\ currentSearchIndex = 0

C6_Witness ==
  /\ JustAnswered
  /\ last.outcome = "Found"
  /\ Len(searchResults) >= 2
  /\ searchResults[1] = searchResults[2]

\* C7: after a response with zero locations, searchResults is empty and the
\* not-found message was shown.
C7_ZeroLocationsNotFound ==
  (JustAnswered /\ Len(last.resp.locations) = 0)
  => /\ searchResults = <<>>
     /\ last.outcome = "NotFound"
     /\ last.alert = "notFound"

\* a not-found answer arriving after the user had stepped to a later result
C7_Witness ==
  JustAnswered /\ last.outcome = "NotFound" /\ currentSearchIndex > 0

\* C8: with results, a step by delta moves the index to currentSearchIndex + delta
\* clamped to the positions of searchResults and raises nothing; when the index
\* stays, so does the page, and when it moves the page is the new result's.
C8_NavigateClamps ==
  [][ (last'.op = "navigate" /\ searchResults # <<>>)
      => /\ currentSearchIndex'
              = Clamp(currentSearchIndex + last'.delta, 0, Len(searchResults) - 1)
         /\ currentSearchIndex' = currentSearchIndex => currentPage' = currentPage
         /\ currentSearchIndex' # currentSearchIndex
            => currentPage' = searchResults[currentSearchIndex' + 1].page_number
         /\ last'.alert = "none" ]_vars

\* next was pressed with a single result
C8_Witness ==
  last.op = "navigate" /\ last.delta = 1 /\ Len(searchResults) = 1

C10_DocumentChangeResets ==
  /\ last.op = "documentChange"
     => /\ searchResults = <<>>
        /\ last.outcome # "Issued" => (~isSearching /\ searchText = <<>>)
  /\ searchResults # <<>> => resultsDoc = document

\* C11: a search that passes the empty-query check is sent with isSearching true;
\* a settled request ends in exactly one of Found (with results), NotFound
\* (without results) and Failed (the request threw), with isSearching false; and
\* this holds for a search started from any of the three.
C11_SearchLifecycle ==
  /\ (last.op \in {"search", "documentChange"} /\ ~IsBlank(searchText))
     => (last.outcome = "Issued" /\ isSearching /\ InFlight >= 1)
  /\ last.op = "settle"
     => /\ ~isSearching
        /\ last.outcome \in {"Found", "NotFound", "Failed"}
        /\ last.outcome = "Found" => searchResults # <<>>
        /\ last.outcome = "NotFound" => searchResults = <<>>
        /\ last.outcome = "Failed" <=> (last.resp.net = "failed" \/ ~last.resp.ok)

\* a failed request settled while nothing else was in flight
C11_Witness ==
  last.op = "settle" /\ last.outcome = "Failed" /\ InFlight = 0 /\ ~isSearching

\* C12: a non-2xx answer or a transport failure ends in Failed with an alert that
\* carries the error's status or message.
C12_FailureCarriesStatus ==
  (last.op = "settle" /\ (last.resp.net = "failed" \/ ~last.resp.ok))
  => /\ last.outcome = "Failed"
     /\ last.alert = "searchError"
     /\ last.detail = ErrorMessage(last.resp)

\* C13: a settling request is not sent again, and the number of requests in
\* flight grows only by one, in a step that is a search or a document change.
C13_NoAutomaticRetry ==
  [][ /\ last'.op = "settle" => InFlight' = InFlight - 1
      /\ InFlight' > InFlight
         => /\ last'.op \in {"search", "documentChange"}
            /\ last'.outcome = "Issued"
            /\ InFlight' = InFlight + 1 ]_vars

\* a request failed and none is in flight after it
C13_Witness ==
  last.op = "settle" /\ last.outcome \in {"Failed", "NotFound"} /\ InFlight = 0

\* ---------------------------------------------- what the snippet claims say
\* 0-based positions of the periods of t
Periods(t) == {p \in 0..(Len(t) - 1) : t[p + 1] = "."}

\* the periods at a position p with 10 < p < 100
Qualifying(t) == {p \in Periods(t) : p > 10 /\ p < 100}

\* the tokens of t as <<first, last>> position pairs of its maximal inked runs
Runs(t) ==
  {r \in Inked(t) \X Inked(t) :
     /\ r[1] <= r[2]
     /\ \A i \in r[1]..r[2] : ~IsSpace(t[i])
     /\ r[1] = 1 \/ IsSpace(t[r[1] - 1])
     /\ r[2] = Len(t) \/ IsSpace(t[r[2] + 1])}

\* t up to the end of its k-th token, or all of t when it has fewer
UpToToken(t, k) ==
  IF Cardinality(Runs(t)) <= k THEN t
  ELSE SubSeq(t, 1, (CHOOSE r \in Runs(t) :
                       Cardinality({q \in Runs(t) : q[1] < r[1]}) = k - 1)[2])

\* t with every run of whitespace replaced by one blank
Collapse(t) ==
  LET kept == {i \in 1..Len(t) : ~IsSpace(t[i]) \/ i = 1 \/ ~IsSpace(t[i - 1])}
  IN [k \in 1..Cardinality(kept) |-> t[Kth(kept, k)]]

\* C14 as stated: when the trimmed text has a period at a position p with
\* 10 < p < 100, the result is the trimmed text up to and including such a period.
C14_SentenceUpToAnyPeriod ==
  LET t == Trim(snippetCall.text)
  IN (snippetCall.derived /\ Qualifying(t) # {})
     => \E p \in Qualifying(t) : snippetCall.result = SubSeq(t, 1, p + 1)

\* C14: when the FIRST period of the trimmed text is at a position p with
\* 10 < p < 100, the result is the trimmed text up to and including that period.
C14_SentenceUpToFirstPeriod ==
  LET t == Trim(snippetCall.text)
  IN (snippetCall.derived /\ Periods(t) # {} /\ Least(Periods(t)) \in Qualifying(t))
     => snippetCall.result = SubSeq(t, 1, Least(Periods(t)) + 1)

\* a sentence was cut out of a text that goes on after the period
C14_Witness ==
  LET t == Trim(snippetCall.text)
  IN /\ snippetCall.derived
     /\ Periods(t) # {} /\ Least(Periods(t)) \in Qualifying(t)
     /\ Len(snippetCall.result) < Len(t)
     /\ snippetCall.result[Len(snippetCall.result)] = "."

\* C15: when the trimmed text has no period at a position p with 10 < p < 100,
\* the result is its first 10 tokens joined by single blanks.
C15_FirstTenTokens ==
  LET t == Trim(snippetCall.text)
  IN (snippetCall.derived /\ Qualifying(t) = {})
     => snippetCall.result = Collapse(UpToToken(t, 10))

\* a text of more than 10 tokens, with a period outside the range, was cut
C15_Witness ==
  LET t == Trim(snippetCall.text)
  IN /\ snippetCall.derived
     /\ Qualifying(t) = {} /\ Periods(t) # {}
     /\ Cardinality(Runs(t)) > 10
     /\ Len(snippetCall.result) < Len(t)

\* C16 as stated: for a text of at most 10 tokens and no period the result is
\* the trimmed text, character for character.
C16_ShortTextVerbatim ==
  LET t == Trim(snippetCall.text)
  IN (snippetCall.derived /\ Periods(t) = {} /\ Cardinality(Runs(t)) <= 10)
     => snippetCall.result = t

\* C16: for a text of at most 10 tokens and no period the result is the trimmed
\* text with every run of whitespace replaced by one blank; it is the trimmed
\* text itself when the tokens are one blank apart.
C16_ShortTextCollapsed ==
  LET t == Trim(snippetCall.text)
  IN (snippetCall.derived /\ Periods(t) = {} /\ Cardinality(Runs(t)) <= 10)
     => /\ snippetCall.result = Collapse(t)
        /\ (\A i \in 2..Len(t) : ~(IsSpace(t[i]) /\ IsSpace(t[i - 1])))
           => snippetCall.result = t

\* a short text whose tokens are two blanks apart came back shorter
C16_Witness ==
  LET t == Trim(snippetCall.text)
  IN /\ snippetCall.derived
     /\ Periods(t) = {} /\ Cardinality(Runs(t)) \in 2..10
     /\ snippetCall.result # t

\* -------------------------------------------------- the end-to-end scenario
\* the first 10 tokens of the passage
ScenarioQuery ==
  <<"G", "o", "v", "e", "r", "n", "m", "e", "n", "t", " ", "o", "f", "f",
    "i", "c", "e", "r", "s", " ", "w", "i", "t", "h", " ", "a", "t", " ",
    "l", "e", "a", "s", "t", " ", "3", " ", "m", "o", "n", "t", "h", "s",
    " ", "o", "f", " ", "e", "m", "p", "l", "o", "y", "m", "e", "n", "t",
    " ", "m", "u", "s", "t">>

\* t starts with the passage and has no period before position 100
IsScenarioPassage(t) ==
  /\ Len(Trim(t)) >= Len(ScenarioHead)
  /\ SubSeq(Trim(t), 1, Len(ScenarioHead)) = ScenarioHead
  /\ \A p \in Periods(Trim(t)) : p >= 100

C18_ResultsFrame ==
  [][ /\ last'.op \in {"zoom", "page", "loadSuccess", "loadError", "highlight"}
         => /\ searchResults' = searchResults
            /\ currentSearchIndex' = currentSearchIndex
      /\ (searchResults' # searchResults \/ currentSearchIndex' # currentSearchIndex)
         => last'.op \in {"settle", "navigate", "documentChange"}
      /\ searchResults' # searchResults
         => (searchResults' = <<>> \/ searchResults' = last'.resp.locations) ]_vars

\* zoomed away from 100% with the second result current and its overlay drawn:
\* the overlay is scaled, the stored boxes are as received
C18_Witness ==
  /\ last.op = "zoom"
  /\ zoom # InitialZoom
  /\ Len(searchResults) = 2
  /\ currentSearchIndex = 1
  /\ \A i \in 1..Len(searchResults) : searchResults[i].bbox = Box
  /\ \E o \in Overlays : o.left = Box.x0 * zoom /\ o.left # Box.x0 * InitialZoom

\* ------------------------------------------------------ the highlight request
\* C19: a highlight request for a document and a non-blank search text sends one
\* POST carrying the document's id, the current page and the search text; when
\* it settles the stored URL becomes the returned one only on a 2xx answer with
\* status success, otherwise it stays and the failure is alerted; and
\* isCreatingHighlight is false afterwards.
C19_HighlightRequest ==
  [][ /\ last'.op = "highlight"
         => /\ highlightPending' = {HighlightRequest(document', currentPage', searchText')}
            /\ highlightPending = {}
      /\ last'.op = "highlightSettle"
         => /\ \E req \in highlightPending :
                 /\ highlightPending' = {}
                 /\ highlightedPdfUrl' =
                      (IF /\ last'.resp.net = "answered"
                          /\ last'.resp.ok
                          /\ last'.resp.status = "success"
                       THEN [document_id |-> req.document_id,
                             page_number |-> req.page_number]
                       ELSE highlightedPdfUrl)
            /\ (last'.resp.net = "failed" \/ ~last'.resp.ok \/ last'.resp.status # "success")
               => last'.alert = "highlightError"
            /\ ~isCreatingHighlight' ]_vars

\* C20: every page-navigation request and every highlight request that is sent
\* names the document being viewed.
C20_RequestsNameViewedDocument ==
  [][ /\ \A req \in BagToSet(pending') :
           CopiesIn(req, pending') > CopiesIn(req, pending) => req.docId = document'
      /\ \A req \in highlightPending' \ highlightPending :
           req.document_id = document' ]_vars

\* ------------------------------------------------------- pages and results
\* C24: a search the user starts changes nothing of searchResults,
\* currentSearchIndex and currentPage when it is sent, and nothing of them when it
\* settles with a non-2xx answer or a transport failure; isSearching is true
\* after the sending and false after the settling.
C24_FailedSearchKeepsState ==
  [][ /\ (last'.op = "search" /\ last'.outcome = "Issued")
         => /\ UNCHANGED <<searchResults, currentSearchIndex, currentPage>>
            /\ isSearching'
      /\ (last'.op = "settle" /\ (last'.resp.net = "failed" \/ ~last'.resp.ok))
         => /\ UNCHANGED <<searchResults, currentSearchIndex, currentPage>>
            /\ ~isSearching' ]_vars

\* a search failed while the second of two results on page 7 was current
C24_Witness ==
  /\ last.op = "settle" /\ last.outcome = "Failed"
  /\ Len(searchResults) = 2
  /\ currentSearchIndex = 1
  /\ currentPage = 7

\* C25: once a document is shown, 1 <= currentPage <= totalPages.
C25_PageWithinDocument ==
  document # NoDoc => (1 <= currentPage /\ currentPage <= totalPages)

\* C26: right after a search that found locations, and right after a navigate
\* that moved currentSearchIndex, currentPage is the page of the current result.
C26_PageOfCurrentResult ==
  [][ ((last'.op = "settle" /\ last'.outcome = "Found")
       \/ (last'.op = "navigate" /\ currentSearchIndex' # currentSearchIndex))
      => /\ currentSearchIndex' \in 0..(Len(searchResults') - 1)
         /\ currentPage' = searchResults'[currentSearchIndex' + 1].page_number ]_vars

\* navigated to a second result that lies on another page than the first
C26_Witness ==
  /\ last.op = "navigate"
  /\ currentSearchIndex = 1
  /\ Len(searchResults) = 2
  /\ searchResults[1].page_number # searchResults[2].page_number
  /\ currentPage = searchResults[2].page_number

\* C27: a stored highlighted-PDF URL is the copy made for the document being
\* viewed (for the id the viewer sends for it), so it is gone after the viewed
\* document changes.
C27_HighlightUrlOfViewedDocument ==
  highlightedPdfUrl # NoUrl
  => highlightedPdfUrl.document_id = actualDocumentId(document)

\* ------------------------------------------------------------ the upload page
\* C21: an upload sends at most maxAttempts status requests, whatever statuses
\* the backend returns.
C21_PollingBounded == polls <= maxAttempts

\* C22: when a health check succeeds, the same handleRefresh sends the
\* document-list request and sets no error.
C22_ConnectedThenListed ==
  [][ (uploadLast'.op = "healthSettle" /\ uploadLast'.resp = "ok")
      => /\ loading'
         /\ \E call \in refreshCalls' : call.phase = "documents"
         /\ error' = error ]_vars

\* C29: a health check that has settled does not leave serverStatus at checking.
C29_HealthCheckDecides ==
  [][ uploadLast'.op = "healthSettle" => serverStatus' \in {"connected", "disconnected"} ]_vars

\* C23: when source selections overlap, once every document-info lookup has
\* finished and the lookup of the source requested last found its document,
\* the document shown is the one requested last
C23_LastRequestedShown ==
  (sourceCalls = {} /\ requestedOk)
    => /\ currentDocument.id = requested.document_id
       /\ currentDocument.pageNumber = requested.page_number
       /\ currentDocument.highlightText = requested.full_content

\* C28: a blank message, or a send while isLoading, changes nothing and sends
\* no request; an accepted send appends exactly the user message; its settling
\* appends, right after that user message, exactly one assistant message (the
\* answer on success, the apology on any failure) and leaves isLoading false;
\* no step alters or removes an earlier message
C28_SendAppendsUserThenAssistant ==
  [][ /\ (chatLast'.op = "send" /\ ~chatLast'.accepted)
           => UNCHANGED <<messages, isLoading, showPDFViewer, currentDocument, documentCache,
                          sendCall, sourceCalls>>
      /\ (chatLast'.op = "send" /\ chatLast'.accepted)
           => /\ ~isLoading /\ sendCall'.active /\ ~IsBlank(sendCall'.message)
              /\ messages' = Append(messages, userMessage(sendCall'.message))
      /\ chatLast'.op = "sendSettle"
           => /\ ~isLoading' /\ ~sendCall'.active
              /\ Len(messages') = Len(messages) + 1
              /\ SubSeq(messages', 1, Len(messages)) = messages
              /\ messages[Len(messages)] = userMessage(sendCall.message)
              /\ messages'[Len(messages')].type = "assistant"
              /\ messages'[Len(messages')].content
                   = IF chatLast'.ok THEN <<"a">> ELSE Apology
      /\ Len(messages') >= Len(messages)
      /\ SubSeq(messages', 1, Len(messages)) = messages
      /\ (~sendCall.active /\ ~sendCall'.active) => messages' = messages ]_vars

C28_Witness ==
  /\ chatLast.op = "sendSettle" /\ ~chatLast.ok /\ ~isLoading
  /\ Len(messages) = 5
  /\ messages[2] = userMessage(<<" ", "q">>) /\ messages[3].content = <<"a">>
  /\ messages[5] = errorMessage

====
